---- MODULE Spec2Model ----
(***************************************************************************)
(* Collateral Monitoring Tool (src/pv_calculation.py): the script reads    *)
(* one treasury yield curve, interpolates it over the projection months,   *)
(* discounts a mortality-decremented cashflow under three scenarios and    *)
(* writes one table.  Each action below is one cell of the script, in the  *)
(* script's order.                                                         *)
(*                                                                         *)
(* Numbers are exact reduced fractions [n, d]; NaN is the float NaN that   *)
(* pandas uses for a missing value.  The discount factor                   *)
(* (1 + rate/100) ** (-year) is irrational in general, so it is kept as    *)
(* the closed term [rate, year]; a present value is a term                 *)
(* coef * (that factor) and a total is the formal sum of such terms.       *)
(***************************************************************************)
EXTENDS Integers, Sequences, FiniteSets

\* The projection horizon: 360 in the script, kept small here.
Horizon == 4
\* The largest number of tenor columns in the input file.
MaxTenors == 3
\* Months in a year: the divisor of lines 99 and 111.
MonthsPerYear == 12

VARIABLES
    pc,                     \* the cell the script executes next
    treasury_curve_final,   \* lines 72-101: rows [Tenors, Rate, Maturities]
    df_final,               \* lines 110-114: rows [Months, Year, Tenors, Rate, Maturities]
    Rate_Interpolated,      \* line 135: one value per row of df_final
    VDF,                    \* line 148: one discount term per row of df_final
    inputs,                 \* lines 156-159: [CF, annual_qx, base_mortality_shock]
    Cumulative_Survivorship,\* lines 173-175: per scenario, one value per row
    Decremented_CFs,        \* lines 187-189: per scenario, one value per row
    PV,                     \* lines 191-193: per scenario, one term per row
    total,                  \* line 206: per scenario, the column sum
    output,                 \* line 222: the rows of the written file, <<>> before
    raised                  \* the exception that ended the run, "none" otherwise

vars == <<pc, treasury_curve_final, df_final, Rate_Interpolated, VDF, inputs,
          Cumulative_Survivorship, Decremented_CFs, PV, total, output, raised>>

----------------------------------------------------------------------------
(* Exact arithmetic standing for float64.                                  *)

Abs(i) == IF i < 0 THEN -i ELSE i

RECURSIVE GCD(_, _)
GCD(a, b) == IF b = 0 THEN a ELSE GCD(b, a % b)

NaN == [n |-> 0, d |-> 0]

IsNaN(q) == q.d = 0

\* The fraction a/b in lowest terms with a positive denominator (b # 0).
Frac(a, b) ==
    LET g == GCD(Abs(a), Abs(b))
        s == IF b < 0 THEN -1 ELSE 1
    IN  [n |-> s * (a \div g), d |-> s * (b \div g)]

Whole(i) == [n |-> i, d |-> 1]

\* IEEE arithmetic: NaN in, NaN out; 0/0 is NaN.
RAdd(p, q) ==
    IF IsNaN(p) \/ IsNaN(q) THEN NaN
    ELSE LET g == GCD(p.d, q.d)
         IN  Frac(p.n * (q.d \div g) + q.n * (p.d \div g), (p.d \div g) * q.d)

RNeg(p) == IF IsNaN(p) THEN NaN ELSE [n |-> -p.n, d |-> p.d]

RSub(p, q) == RAdd(p, RNeg(q))

RMul(p, q) ==
    IF IsNaN(p) \/ IsNaN(q) THEN NaN
    ELSE LET g1 == GCD(Abs(p.n), q.d)
             g2 == GCD(Abs(q.n), p.d)
         IN  [n |-> (p.n \div g1) * (q.n \div g2), d |-> (p.d \div g2) * (q.d \div g1)]

RDiv(p, q) ==
    IF IsNaN(p) \/ IsNaN(q) \/ q.n = 0 THEN NaN
    ELSE RMul(p, Frac(q.d, q.n))

\* The sign of p - q: its numerator over the least common denominator.
Diff(p, q) ==
    LET g == GCD(p.d, q.d) IN p.n * (q.d \div g) - q.n * (p.d \div g)

\* Comparisons with NaN are false, as in IEEE.
RLt(p, q) == ~IsNaN(p) /\ ~IsNaN(q) /\ Diff(p, q) < 0
RLe(p, q) == ~IsNaN(p) /\ ~IsNaN(q) /\ Diff(p, q) <= 0
REq(p, q) == ~IsNaN(p) /\ ~IsNaN(q) /\ p = q

----------------------------------------------------------------------------
(* Tenor labels are Python strings: sequences of characters.               *)

Digits == <<"0", "1", "2", "3", "4", "5", "6", "7", "8", "9">>

DigitChars == {Digits[i] : i \in 1..10}

DigitValue(c) == (CHOOSE i \in 1..10 : Digits[i] = c) - 1

\* The decimal numeral of k, 0 <= k < 100.
Numeral(k) ==
    IF k < 10 THEN <<Digits[k + 1]>>
    ELSE <<Digits[(k \div 10) + 1], Digits[(k % 10) + 1]>>

Label(k, unit) == Numeral(k) \o <<" ">> \o unit

Mo == <<"M", "o">>
Yr == <<"Y", "r">>

\* s[:k]
Prefix(s, k) == SubSeq(s, 1, IF k < Len(s) THEN k ELSE Len(s))

\* s[-k:]
Suffix(s, k) == SubSeq(s, IF Len(s) > k THEN Len(s) - k + 1 ELSE 1, Len(s))

RECURSIVE Strip(_)
Strip(s) ==
    IF s = <<>> THEN s
    ELSE IF Head(s) = " " THEN Strip(Tail(s))
    ELSE IF s[Len(s)] = " " THEN Strip(SubSeq(s, 1, Len(s) - 1))
    ELSE s

RECURSIVE DecimalValue(_)
DecimalValue(s) ==
    IF s = <<>> THEN 0
    ELSE 10 * DecimalValue(SubSeq(s, 1, Len(s) - 1)) + DigitValue(s[Len(s)])

\* int(s) accepts digits with surrounding whitespace and raises otherwise.
CanParseInt(s) ==
    LET t == Strip(s) IN t # <<>> /\ \A i \in 1..Len(t) : t[i] \in DigitChars

ParseInt(s) == DecimalValue(Strip(s))

\* Lines 97-101 for one label.  np.where evaluates both branches for every
\* row, so both conversions must succeed.
CanNormalize(tenor) == CanParseInt(Prefix(tenor, 1)) /\ CanParseInt(Prefix(tenor, 2))

Maturity(tenor) ==
    IF Suffix(tenor, 2) = Mo
    THEN Frac(ParseInt(Prefix(tenor, 1)), MonthsPerYear)
    ELSE Whole(ParseInt(Prefix(tenor, 2)))

----------------------------------------------------------------------------
(* Lines 110-114: the month table, the left merge and the forward fill.    *)

NoTenor == <<>>

Max(S) == CHOOSE x \in S : \A y \in S : y <= x

Year(m) == Frac(m, MonthsPerYear)

\* The rows of the curve whose maturity equals the month's year fraction, in
\* the curve's order: a left merge emits one row per match.
RECURSIVE Matches(_, _, _)
Matches(curve, m, i) ==
    IF i > Len(curve) THEN <<>>
    ELSE (IF REq(curve[i].Maturities, Year(m)) THEN <<i>> ELSE <<>>)
         \o Matches(curve, m, i + 1)

MergeRows(curve, m) ==
    LET hit == Matches(curve, m, 1)
    IN  IF hit = <<>>
        THEN <<[Months |-> m, Year |-> Year(m), Tenors |-> NoTenor,
                Rate |-> NaN, Maturities |-> NaN]>>
        ELSE [k \in 1..Len(hit) |->
                [Months |-> m, Year |-> Year(m), Tenors |-> curve[hit[k]].Tenors,
                 Rate |-> curve[hit[k]].Rate, Maturities |-> curve[hit[k]].Maturities]]

RECURSIVE LeftMerge(_, _)
LeftMerge(curve, m) ==
    IF m > Horizon THEN <<>> ELSE MergeRows(curve, m) \o LeftMerge(curve, m + 1)

\* fillna(method='ffill'): each column on its own takes the last value
\* present at or above the row; a leading gap stays missing.
FFillTenor(rows, i) ==
    LET valid == {j \in 1..i : rows[j].Tenors # NoTenor}
    IN  IF valid = {} THEN NoTenor ELSE rows[Max(valid)].Tenors

FFillRate(rows, i) ==
    LET valid == {j \in 1..i : ~IsNaN(rows[j].Rate)}
    IN  IF valid = {} THEN NaN ELSE rows[Max(valid)].Rate

FFillMaturity(rows, i) ==
    LET valid == {j \in 1..i : ~IsNaN(rows[j].Maturities)}
    IN  IF valid = {} THEN NaN ELSE rows[Max(valid)].Maturities

FFill(rows) ==
    [i \in 1..Len(rows) |->
        [Months |-> rows[i].Months, Year |-> rows[i].Year,
         Tenors |-> FFillTenor(rows, i), Rate |-> FFillRate(rows, i),
         Maturities |-> FFillMaturity(rows, i)]]

MergedTable(curve) == FFill(LeftMerge(curve, 1))

----------------------------------------------------------------------------
(* Lines 134-135: scipy.interpolate.interp1d(x, y)(x_new), kind linear,    *)
(* bounds_error on, float64 data: a stable sort of the knots, np.interp,   *)
(* then the bounds check.                                                  *)

\* argsort(x, kind="mergesort"): a stable ascending sort that puts NaN last.
\* Precedes is its strict order on the keys.
Precedes(a, b) == (~IsNaN(a) /\ IsNaN(b)) \/ RLt(a, b)

\* e placed after every entry of the sorted sequence it does not precede.
InsertKnot(sorted, e) ==
    LET k == Cardinality({j \in 1..Len(sorted) : ~Precedes(e.x, sorted[j].x)})
    IN  SubSeq(sorted, 1, k) \o <<e>> \o SubSeq(sorted, k + 1, Len(sorted))

RECURSIVE StableSort(_, _)
StableSort(knots, n) ==
    IF n = 0 THEN <<>> ELSE InsertKnot(StableSort(knots, n - 1), knots[n])

\* scipy's own linear evaluation (interp1d._call_linear), which np.interp
\* replaces for float64 data: searchsorted from the left, clipped, with the
\* slope taken between the two entries found, repeated knots included.
CallLinear(x_val, xp, fp) ==
    LET len == Len(xp)
        idx == Cardinality({j \in 1..len : RLt(xp[j], x_val)})
        lo == IF idx < 1 THEN 1 ELSE IF idx > len - 1 THEN len - 1 ELSE idx
        hi == lo + 1
        slope == RDiv(RSub(fp[hi], fp[lo]), RSub(xp[hi], xp[lo]))
    IN  RAdd(RMul(slope, RSub(x_val, xp[lo])), fp[lo])

\* np.interp for one query point over sorted knots xp with values fp.
\* The search returns the last j with xp[j] <= x_val.
NpInterp(x_val, xp, fp) ==
    LET len == Len(xp)
        below == {j \in 1..len : RLe(xp[j], x_val)}
    IN  IF IsNaN(x_val) THEN NaN
        ELSE IF IsNaN(xp[1]) THEN fp[1]
        ELSE IF below = {} THEN fp[1]
        ELSE LET j == Max(below)
             IN  IF j = len THEN fp[len]
                 ELSE IF IsNaN(xp[j + 1]) THEN NaN
                 ELSE IF xp[j] = x_val THEN fp[j]
                 ELSE LET slope == RDiv(RSub(fp[j + 1], fp[j]), RSub(xp[j + 1], xp[j]))
                      IN  RAdd(RMul(slope, RSub(x_val, xp[j])), fp[j])

\* interp1d._check_bounds: a query below the first or above the last sorted
\* knot raises ValueError.
OutOfBounds(x_new, xp) ==
    \E i \in 1..Len(x_new) : RLt(x_new[i], xp[1]) \/ RLt(xp[Len(xp)], x_new[i])

SortedKnots(rows) ==
    LET knots == [i \in 1..Len(rows) |-> [x |-> rows[i].Maturities, y |-> rows[i].Rate]]
        sorted == StableSort(knots, Len(rows))
    IN  [xp |-> [r \in 1..Len(rows) |-> sorted[r].x],
         fp |-> [r \in 1..Len(rows) |-> sorted[r].y]]

InterpRaises(rows) ==
    OutOfBounds([i \in 1..Len(rows) |-> rows[i].Year], SortedKnots(rows).xp)

Interp1d(rows) ==
    LET k == SortedKnots(rows)
    IN  [i \in 1..Len(rows) |-> NpInterp(rows[i].Year, k.xp, k.fp)]

----------------------------------------------------------------------------
(* Line 148: the valuation discount factor, kept as a closed term.         *)

NaNFactor == [rate |-> NaN, year |-> NaN]

\* (1 + rate/100) ** (-year); a zero rate gives 1 whatever the year.
DiscountFactor(rate, year) ==
    IF IsNaN(rate) THEN NaNFactor
    ELSE IF rate.n = 0 THEN [rate |-> rate, year |-> Whole(0)]
    ELSE [rate |-> rate, year |-> year]

----------------------------------------------------------------------------
(* Lines 156-193: assumptions, survivorship, decremented cashflows, PVs.   *)

Scenarios == {"BE", "Best", "Worst"}

monthly_qx(in) == RDiv(in.annual_qx, Whole(MonthsPerYear))

\* Lines 169-171: the single-month survival probability of each scenario.
Survivorship(in) ==
    LET one == Whole(1)
        up == RAdd(one, in.base_mortality_shock)
    IN  [BE |-> RSub(one, monthly_qx(in)),
         Best |-> RSub(one, RMul(monthly_qx(in), up)),
         Worst |-> RSub(one, RDiv(monthly_qx(in), up))]

\* Series.cumprod over a column holding p in each of its n rows.
RECURSIVE CumProd(_, _)
CumProd(p, n) ==
    IF n = 0 THEN <<>>
    ELSE IF n = 1 THEN <<p>>
    ELSE LET prev == CumProd(p, n - 1) IN Append(prev, RMul(prev[n - 1], p))

\* Lines 187-189.
Decrement(CF, cum) == [i \in 1..Len(cum) |-> RMul(CF, cum[i])]

NaNTerm == [vdf |-> NaNFactor, coef |-> NaN]

\* Lines 191-193: VDF * Decremented_CFs, row by row.
PresentValue(vdf, dcf) ==
    [i \in 1..Len(vdf) |->
        IF vdf[i] = NaNFactor \/ IsNaN(dcf[i]) THEN NaNTerm
        ELSE [vdf |-> vdf[i], coef |-> dcf[i]]]

\* Series.sum(): NaN entries are skipped; like terms are collected and a
\* zero coefficient drops out.
RECURSIVE CoefSum(_, _, _)
CoefSum(col, factor, i) ==
    IF i = 0 THEN Whole(0)
    ELSE IF col[i].vdf = factor THEN RAdd(CoefSum(col, factor, i - 1), col[i].coef)
    ELSE CoefSum(col, factor, i - 1)

ColumnSum(col) ==
    LET factors == {col[i].vdf : i \in 1..Len(col)} \ {NaNFactor}
        terms == {[vdf |-> f, coef |-> CoefSum(col, f, Len(col))] : f \in factors}
    IN  {t \in terms : t.coef.n # 0}

----------------------------------------------------------------------------
(* Lines 206-222: the total row, fillna('') and the written table.         *)

Blank == [blank |-> TRUE]

\* fillna(''): a missing value is written as an empty cell.
Cell(v) == IF v = NaN \/ v = NaNFactor \/ v = NaNTerm THEN Blank ELSE v

MonthRow(i) ==
    [Months |-> Whole(df_final[i].Months),
     Year |-> df_final[i].Year,
     Rate_Interpolated |-> Cell(Rate_Interpolated[i]),
     VDF |-> Cell(VDF[i]),
     CFs |-> inputs.CF,
     Cumulative_Survivorship |-> Cell(Cumulative_Survivorship.BE[i]),
     Cumulative_Survivorship_Best |-> Cell(Cumulative_Survivorship.Best[i]),
     Cumulative_Survivorship_Worst |-> Cell(Cumulative_Survivorship.Worst[i]),
     Decremented_CFs |-> Cell(Decremented_CFs.BE[i]),
     Decremented_CFs_Best |-> Cell(Decremented_CFs.Best[i]),
     Decremented_CFs_Worst |-> Cell(Decremented_CFs.Worst[i]),
     PV |-> Cell(PV.BE[i]),
     PV_Best |-> Cell(PV.Best[i]),
     PV_Worst |-> Cell(PV.Worst[i])]

TotalRow ==
    [Months |-> Blank, Year |-> Blank, Rate_Interpolated |-> Blank, VDF |-> Blank,
     CFs |-> Blank,
     Cumulative_Survivorship |-> Blank, Cumulative_Survivorship_Best |-> Blank,
     Cumulative_Survivorship_Worst |-> Blank,
     Decremented_CFs |-> Blank, Decremented_CFs_Best |-> Blank,
     Decremented_CFs_Worst |-> Blank,
     PV |-> [sum |-> total.BE],
     PV_Best |-> [sum |-> total.Best],
     PV_Worst |-> [sum |-> total.Worst]]

\* Line 210: df_final.append(total).fillna('').
df_final_total == [i \in 1..Len(df_final) |-> MonthRow(i)] \o <<TotalRow>>

----------------------------------------------------------------------------
(* The input file and the assumptions cell.                                *)

\* Tenor columns of the file: the month tenors "1 Mo" and "2 Mo", the month
\* tenor at the horizon, a two-digit month tenor and a year tenor.
TenorLabels ==
    {Label(1, Mo), Label(2, Mo), Label(Horizon, Mo), Label(12, Mo), Label(1, Yr)}

\* Quoted rates in percent; NaN is an empty cell of the file.
Rates == {Whole(2), Whole(4), NaN}

\* read_csv names no two columns alike.
Curves ==
    UNION {{c \in [1..k -> [Tenors : TenorLabels, Rate : Rates]] :
                \A i, j \in 1..k : c[i].Tenors = c[j].Tenors => i = j}
           : k \in 1..MaxTenors}

\* The assumptions cell as edited: a base case inside the domain and each
\* assumption changed on its own (a cashflow that is not positive, a
\* decrement rate of 12, no shock).
BaseInputs ==
    [CF |-> Whole(1), annual_qx |-> Frac(6, 7), base_mortality_shock |-> Whole(1)]

InputValues ==
    {BaseInputs,
     [BaseInputs EXCEPT !.CF = Whole(-1)],
     [BaseInputs EXCEPT !.annual_qx = Whole(12)],
     [BaseInputs EXCEPT !.base_mortality_shock = Whole(0)]}

NoScenarioColumns == [BE |-> <<>>, Best |-> <<>>, Worst |-> <<>>]
NoInputs == [CF |-> NaN, annual_qx |-> NaN, base_mortality_shock |-> NaN]
NoTotal == [BE |-> {}, Best |-> {}, Worst |-> {}]

\* Lines 72-80: the curve is read; nothing else exists yet.  The Maturities
\* column is added by the next cell and is NaN until then.
Init ==
    /\ pc = "normalize"
    /\ \E c \in Curves :
         treasury_curve_final =
            [i \in 1..Len(c) |-> [Tenors |-> c[i].Tenors, Rate |-> c[i].Rate,
                                  Maturities |-> NaN]]
    /\ df_final = <<>>
    /\ Rate_Interpolated = <<>>
    /\ VDF = <<>>
    /\ inputs = NoInputs
    /\ Cumulative_Survivorship = NoScenarioColumns
    /\ Decremented_CFs = NoScenarioColumns
    /\ PV = NoScenarioColumns
    /\ total = NoTotal
    /\ output = <<>>
    /\ raised = "none"

\* Lines 97-101.
Normalize ==
    /\ pc = "normalize"
    /\ IF \A i \in 1..Len(treasury_curve_final) :
            CanNormalize(treasury_curve_final[i].Tenors)
       THEN /\ treasury_curve_final' =
                 [i \in 1..Len(treasury_curve_final) |->
                    [treasury_curve_final[i] EXCEPT
                        !.Maturities = Maturity(treasury_curve_final[i].Tenors)]]
            /\ pc' = "merge"
            /\ raised' = raised
       ELSE /\ pc' = "failed"
            /\ raised' = "ValueError"
            /\ treasury_curve_final' = treasury_curve_final
    /\ UNCHANGED <<df_final, Rate_Interpolated, VDF, inputs, Cumulative_Survivorship,
                   Decremented_CFs, PV, total, output>>

\* Lines 110-114.
Merge ==
    /\ pc = "merge"
    /\ df_final' = MergedTable(treasury_curve_final)
    /\ pc' = "interpolate"
    /\ UNCHANGED <<treasury_curve_final, Rate_Interpolated, VDF, inputs,
                   Cumulative_Survivorship, Decremented_CFs, PV, total, output, raised>>

\* Lines 134-135.
Interpolate ==
    /\ pc = "interpolate"
    /\ IF InterpRaises(df_final)
       THEN /\ pc' = "failed"
            /\ raised' = "ValueError"
            /\ Rate_Interpolated' = Rate_Interpolated
       ELSE /\ Rate_Interpolated' = Interp1d(df_final)
            /\ pc' = "vdf"
            /\ raised' = raised
    /\ UNCHANGED <<treasury_curve_final, df_final, VDF, inputs,
                   Cumulative_Survivorship, Decremented_CFs, PV, total, output>>

\* Lines 146-148.
CalcVDF ==
    /\ pc = "vdf"
    /\ VDF' = [i \in 1..Len(df_final) |->
                 DiscountFactor(Rate_Interpolated[i], df_final[i].Year)]
    /\ pc' = "assumptions"
    /\ UNCHANGED <<treasury_curve_final, df_final, Rate_Interpolated, inputs,
                   Cumulative_Survivorship, Decremented_CFs, PV, total, output, raised>>

\* Lines 156-159: the assumptions are whatever the cell holds.
Assumptions ==
    /\ pc = "assumptions"
    /\ \E in \in InputValues : inputs' = in
    /\ pc' = "survivorship"
    /\ UNCHANGED <<treasury_curve_final, df_final, Rate_Interpolated, VDF,
                   Cumulative_Survivorship, Decremented_CFs, PV, total, output, raised>>

\* Lines 168-175.
CalcSurvivorship ==
    /\ pc = "survivorship"
    /\ Cumulative_Survivorship' =
         LET p == Survivorship(inputs)
         IN  [BE |-> CumProd(p.BE, Len(df_final)),
              Best |-> CumProd(p.Best, Len(df_final)),
              Worst |-> CumProd(p.Worst, Len(df_final))]
    /\ pc' = "pv"
    /\ UNCHANGED <<treasury_curve_final, df_final, Rate_Interpolated, VDF, inputs,
                   Decremented_CFs, PV, total, output, raised>>

\* Lines 187-193.
CalcPV ==
    /\ pc = "pv"
    /\ Decremented_CFs' =
         [s \in Scenarios |-> Decrement(inputs.CF, Cumulative_Survivorship[s])]
    /\ PV' = [s \in Scenarios |-> PresentValue(VDF, Decremented_CFs'[s])]
    /\ pc' = "summary"
    /\ UNCHANGED <<treasury_curve_final, df_final, Rate_Interpolated, VDF, inputs,
                   Cumulative_Survivorship, total, output, raised>>

\* Lines 206-214.
Summarize ==
    /\ pc = "summary"
    /\ total' = [s \in Scenarios |-> ColumnSum(PV[s])]
    /\ pc' = "export"
    /\ UNCHANGED <<treasury_curve_final, df_final, Rate_Interpolated, VDF, inputs,
                   Cumulative_Survivorship, Decremented_CFs, PV, output, raised>>

\* An export that also runs when an earlier cell raised, writing what exists.
ExportAnyway ==
    /\ pc \in {"export", "failed"}
    /\ output = <<>>
    /\ output' = IF pc = "export" THEN df_final_total ELSE <<TotalRow>>
    /\ pc' = IF pc = "export" THEN "done" ELSE pc
    /\ UNCHANGED <<treasury_curve_final, df_final, Rate_Interpolated, VDF, inputs,
                   Cumulative_Survivorship, Decremented_CFs, PV, total, raised>>

\* Line 222.
Export ==
    /\ pc = "export"
    /\ output' = df_final_total
    /\ pc' = "done"
    /\ UNCHANGED <<treasury_curve_final, df_final, Rate_Interpolated, VDF, inputs,
                   Cumulative_Survivorship, Decremented_CFs, PV, total, raised>>

Next ==
    \/ Normalize
    \/ Merge
    \/ Interpolate
    \/ CalcVDF
    \/ Assumptions
    \/ CalcSurvivorship
    \/ CalcPV
    \/ Summarize
    \/ Export

Spec == Init /\ [][Next]_vars

----------------------------------------------------------------------------
(* Vocabulary of the properties.                                           *)

Normalized == pc # "normalize"
Interpolated == Rate_Interpolated # <<>>
RowsComputed == Cumulative_Survivorship # NoScenarioColumns
Summarized == pc \in {"export", "done"}

RECURSIVE LeadingDigits(_)
LeadingDigits(s) ==
    IF s = <<>> \/ Head(s) \notin DigitChars THEN <<>>
    ELSE <<Head(s)>> \o LeadingDigits(Tail(s))

\* The maturity a label stands for: its whole leading number, over twelve
\* for a month tenor.
StatedMaturity(tenor) ==
    IF Suffix(tenor, 2) = Mo
    THEN Frac(DecimalValue(LeadingDigits(tenor)), MonthsPerYear)
    ELSE Whole(DecimalValue(LeadingDigits(tenor)))

TenorRows == 1..Len(treasury_curve_final)
TableRows == 1..Len(df_final)

UniqueMaturities ==
    \A i, j \in TenorRows :
        treasury_curve_final[i].Maturities = treasury_curve_final[j].Maturities => i = j

SortedMaturities ==
    \A i, j \in TenorRows :
        i < j => RLt(treasury_curve_final[i].Maturities, treasury_curve_final[j].Maturities)

RatesPresent == \A i \in TenorRows : ~IsNaN(treasury_curve_final[i].Rate)

\* A curve the curve builder is specified to accept.
WellFormedCurve ==
    /\ Len(treasury_curve_final) >= 2
    /\ SortedMaturities
    /\ RatesPresent

\* The domain of the scenario parameters.
InDomain(in) ==
    /\ in.CF.n > 0
    /\ in.annual_qx.n >= 0 /\ RLt(in.annual_qx, Whole(1))
    /\ in.base_mortality_shock.n >= 0
    /\ RLe(RMul(monthly_qx(in), RAdd(Whole(1), in.base_mortality_shock)), Whole(1))

RECURSIVE Power(_, _)
Power(p, k) == IF k = 0 THEN Whole(1) ELSE RMul(Power(p, k - 1), p)

----------------------------------------------------------------------------
\* C10: after normalization every tenor's maturity is its whole leading
\* number, over twelve when the label ends in "Mo", and two different
\* labels of the same unit never get the same maturity.
C10_TenorNormalization ==
    Normalized =>
        /\ \A i \in TenorRows :
             treasury_curve_final[i].Maturities =
                StatedMaturity(treasury_curve_final[i].Tenors)
        /\ \A i, j \in TenorRows :
             (/\ i # j
              /\ Suffix(treasury_curve_final[i].Tenors, 2) =
                    Suffix(treasury_curve_final[j].Tenors, 2))
             => treasury_curve_final[i].Maturities # treasury_curve_final[j].Maturities

\* C9: a curve with fewer than two distinct maturities, with a missing rate
\* or with maturities that are not unique and sorted is rejected: the run
\* never gets past the curve cells and no discount factor is produced.
C9_IllFormedCurveRejected ==
    (Normalized /\ ~WellFormedCurve) =>
        /\ VDF = <<>>
        /\ pc \in {"merge", "interpolate", "failed"}

\* C5: on a well-formed curve, once the interpolation cell has run, it has
\* not failed, and every month below the smallest or above the largest
\* maturity carries the rate of the nearest maturity.
NearestRate(year) ==
    LET first == treasury_curve_final[1]
        last == treasury_curve_final[Len(treasury_curve_final)]
    IN  IF RLt(year, first.Maturities) THEN first.Rate ELSE last.Rate

OutsideCurve(year) ==
    \/ RLt(year, treasury_curve_final[1].Maturities)
    \/ RLt(treasury_curve_final[Len(treasury_curve_final)].Maturities, year)

C5_FlatExtrapolation ==
    (/\ Normalized
     /\ WellFormedCurve
     /\ pc \notin {"merge", "interpolate"}
     /\ \E m \in 1..Horizon : OutsideCurve(Year(m)))
    => /\ pc # "failed"
       /\ \A r \in TableRows :
            OutsideCurve(df_final[r].Year) =>
                Rate_Interpolated[r] = NearestRate(df_final[r].Year)

C4_OutOfDomainRejected ==
    (inputs # NoInputs /\ ~InDomain(inputs)) =>
        /\ Cumulative_Survivorship = NoScenarioColumns
        /\ Decremented_CFs = NoScenarioColumns
        /\ PV = NoScenarioColumns
        /\ pc \in {"survivorship", "failed"}

\* C2: in every run that computes valuation rows, each scenario's cumulative
\* survivorship of month m is p^m (S(0) = 1, S(m) = S(m-1) * p), lies in
\* (0, 1] and does not exceed that of the row before.
C2_SurvivorshipRange ==
    RowsComputed =>
        \A s \in Scenarios : \A r \in TableRows :
            LET S == Cumulative_Survivorship[s]
                p == Survivorship(inputs)[s]
            IN  /\ S[r] = Power(p, df_final[r].Months)
                /\ S[r].n > 0
                /\ RLe(S[r], Whole(1))
                /\ RLe(S[r], IF r = 1 THEN Whole(1) ELSE S[r - 1])

\* C3: with a positive shock, in every computed row the Favorable (Best)
\* survivorship is at most the BestEstimate one, which is at most the
\* Adverse (Worst) one.
C3_ShockOrdering ==
    (RowsComputed /\ inputs.base_mortality_shock.n > 0) =>
        \A r \in TableRows :
            /\ RLe(Cumulative_Survivorship.Best[r], Cumulative_Survivorship.BE[r])
            /\ RLe(Cumulative_Survivorship.BE[r], Cumulative_Survivorship.Worst[r])

\* The total the summary is specified to hold: one term per month 1..Horizon,
\* the month's discount factor times the cashflow times p^m; a month without
\* a value makes the sum NaN.
MonthFactor(m) ==
    VDF[CHOOSE r \in TableRows :
            /\ df_final[r].Months = m
            /\ \A q \in TableRows : df_final[q].Months = m => r <= q]

StatedTotal(s) ==
    LET terms == PresentValue([m \in 1..Horizon |-> MonthFactor(m)],
                              [m \in 1..Horizon |->
                                  RMul(inputs.CF, Power(Survivorship(inputs)[s], m))])
    IN  IF \E m \in 1..Horizon : terms[m] = NaNTerm THEN {NaNTerm}
        ELSE ColumnSum(terms)

\* C1: each scenario's total PV is the sum over the months 1..Horizon of
\* discount_factor(m) * CF * S_scenario(m), each month counted exactly once.
C1_TotalIsSumOverMonths ==
    Summarized => \A s \in Scenarios : total[s] = StatedTotal(s)

\* C8: the written table has one row per month, months 1..Horizon in order,
\* then one row that holds the three totals and is blank elsewhere.
C8_OneRowPerMonth ==
    (pc = "done") =>
        /\ Len(output) = Horizon + 1
        /\ \A m \in 1..Horizon : output[m].Months = Whole(m)
        /\ output[Len(output)] = TotalRow

\* C7: the table is written once, by the last cell, after the curve, the
\* rows of all three scenarios and the totals were computed from it; a run
\* that failed has written nothing; valuation starts from a built curve.
C7_AllOrNothing ==
    /\ output = <<>>
    /\ [][/\ (output' # output) =>
                /\ output = <<>>
                /\ raised = "none" /\ pc' = "done"
                /\ Len(df_final) >= Horizon
                /\ Len(VDF) = Len(df_final)
                /\ \A s \in Scenarios : Len(PV[s]) = Len(df_final)
                /\ total = [s \in Scenarios |-> ColumnSum(PV[s])]
                /\ Len(output') = Len(df_final) + 1
          /\ (pc' = "failed" \/ raised' # "none") => output' = <<>>
          /\ (Cumulative_Survivorship' # Cumulative_Survivorship) =>
                (Len(VDF) = Len(df_final) /\ Len(df_final) >= Horizon)
          /\ (pc = "done" \/ pc = "failed") => UNCHANGED vars]_vars

\* C7's case: a finished run with its table written, and (in another run)
\* a failed run.
C7_Witness ==
    /\ pc = "done"
    /\ raised = "none"
    /\ Len(output) = Len(df_final) + 1
    /\ output[Len(output)].PV = [sum |-> total.BE]
    /\ total.BE # {}

C7_WitnessFailed == pc = "failed" /\ raised = "ValueError" /\ output = <<>>

----------------------------------------------------------------------------
(* What the script does guarantee where the statements above fail: with    *)
(* parameters inside their domain and pairwise distinct maturities the     *)
(* rows are the months and the survivorship and totals are as stated.      *)

NoMissingFactor == \A r \in TableRows : VDF[r] # NaNFactor

SurvivorshipWithinDomain ==
    (RowsComputed /\ InDomain(inputs) /\ UniqueMaturities) =>
        \A s \in Scenarios : \A r \in TableRows :
            LET S == Cumulative_Survivorship[s]
            IN  /\ S[r] = Power(Survivorship(inputs)[s], df_final[r].Months)
                /\ S[r].n > 0
                /\ RLe(S[r], IF r = 1 THEN Whole(1) ELSE S[r - 1])

ShockOrderingWithinDomain ==
    (RowsComputed /\ InDomain(inputs) /\ inputs.base_mortality_shock.n > 0) =>
        \A r \in TableRows :
            /\ RLe(Cumulative_Survivorship.Best[r], Cumulative_Survivorship.BE[r])
            /\ RLe(Cumulative_Survivorship.BE[r], Cumulative_Survivorship.Worst[r])

TotalOnDistinctMaturities ==
    (Summarized /\ UniqueMaturities /\ NoMissingFactor) =>
        \A s \in Scenarios : total[s] = StatedTotal(s)

RowsOnDistinctMaturities ==
    (pc = "done" /\ UniqueMaturities) =>
        /\ Len(output) = Horizon + 1
        /\ \A m \in 1..Horizon : output[m].Months = Whole(m)
        /\ output[Len(output)] = TotalRow

====
